---- MODULE Spec2Model ----
(***************************************************************************)
(* Model of the python-subrange package (src/subrange/__init__.py):        *)
(* class subrange, an immutable hashable ordered collection of the         *)
(* integers min..max, and class subrangef, its annotated subclass.         *)
(*                                                                         *)
(* Python values are tagged records.  The tag t is the value's type name:  *)
(*   int, long, bool : field i, the number                                 *)
(*   float           : field h, twice the number (halves are exact)        *)
(*   str             : field s                                             *)
(*   tuple, list     : field items, a sequence of values                   *)
(*   dict            : field d, a function from key strings to values      *)
(*   subrange, subrangef : field dict, the instance's __dict__             *)
(***************************************************************************)
EXTENDS Integers, Sequences, FiniteSets, TLC

VARIABLES
    self,      \* the instance under test, or NoObj before construction
    other,     \* the right-hand operand of the binary operators
    iters,     \* the generators obtained from self, in creation order
    outcome    \* what the last operation returned or raised

vars == <<self, other, iters, outcome>>

----------------------------------------------------------------------------
(* Bounds of the model *)

MaxAbs == 2          \* integers range over -MaxAbs .. MaxAbs
MaxIters == 2        \* generators alive at once

Ints == (0 - MaxAbs) .. MaxAbs

----------------------------------------------------------------------------
(* Python values *)

PyInt(n) == [t |-> "int", i |-> n]
PyLong(n) == [t |-> "long", i |-> n]
PyBool(b) == [t |-> "bool", i |-> IF b THEN 1 ELSE 0]
PyFloat(h) == [t |-> "float", h |-> h]
PyStr(s) == [t |-> "str", s |-> s]
PyTuple(items) == [t |-> "tuple", items |-> items]
PyList(items) == [t |-> "list", items |-> items]
PyDict(d) == [t |-> "dict", d |-> d]
PyNone == [t |-> "NoneType"]

NoObj == [t |-> "none"]

IsNumber(v) == v.t \in {"int", "long", "bool", "float"}

\* twice the numeric value of a number, so that ints and floats compare exactly
Twice(v) == IF v.t = "float" THEN v.h ELSE 2 * v.i

\* isinstance(v, subrange): the class or its subclass
IsSubrange(v) == v.t \in {"subrange", "subrangef"}

\* isinstance(v, int): bool is a subclass of int, long is not
IsInstanceInt(v) == v.t \in {"int", "bool"}

\* the builtin == between two scalars: numbers by value, strings by content,
\* anything else unequal
PyEq(x, y) ==
    IF IsNumber(x) /\ IsNumber(y) THEN Twice(x) = Twice(y)
    ELSE IF x.t = "str" /\ y.t = "str" THEN x.s = y.s
    ELSE FALSE

\* the builtin < between two scalars: numbers by value; a number sorts before
\* any non-number (Python 2 orders mixed types, numbers first)
PyLt(x, y) ==
    IF IsNumber(x) /\ IsNumber(y) THEN Twice(x) < Twice(y)
    ELSE IF IsNumber(x) THEN ~IsNumber(y) /\ y.t # "NoneType"
    ELSE FALSE

PyGt(x, y) ==
    IF IsNumber(x) /\ IsNumber(y) THEN Twice(x) > Twice(y)
    ELSE IF IsNumber(x) THEN y.t = "NoneType"
    ELSE FALSE

----------------------------------------------------------------------------
(* Outcomes of an operation *)

Return(v) == [exc |-> "", val |-> v]
Raise(exc, msg) == [exc |-> exc, msg |-> msg]
Raised(o) == o.exc # ""

\* sequencing: if o raised, that is the outcome; otherwise go on with its value
\* (o is evaluated once, as the statement it models runs once)
Then(o, F(_)) ==
    CHOOSE y \in {IF Raised(x) THEN x ELSE F(x.val) : x \in {o}} : TRUE

----------------------------------------------------------------------------
(* Text: repr(), int.__format__, str.format *)

HexDigits == <<"0", "1", "2", "3", "4", "5", "6", "7",
               "8", "9", "A", "B", "C", "D", "E", "F">>

\* the digits of n >= 0 in the given base, most significant first
RECURSIVE Digits(_, _)
Digits(n, base) ==
    IF n < base THEN HexDigits[n + 1]
    ELSE Digits(n \div base, base) \o HexDigits[(n % base) + 1]

RECURSIVE Zeros(_)
Zeros(k) == IF k <= 0 THEN "" ELSE "0" \o Zeros(k - 1)

\* A format specification is the record [type, width]: type is "" (none given),
\* "d", "X" or "b"; width > 0 stands for the zero-padded width "0<width>".
\* The empty string is EmptySpec.
EmptySpec == [type |-> "", width |-> 0]
FmtSpec(type, width) == [type |-> type, width |-> width]

SpecBase(spec) == CASE spec.type = "X" -> 16 [] spec.type = "b" -> 2 [] OTHER -> 10

\* int.__format__(n, spec): sign, then the digits zero-padded to the width
FormatInt(n, spec) ==
    LET sign == IF n < 0 THEN "-" ELSE ""
        mag == IF n < 0 THEN 0 - n ELSE n
        digs == Digits(mag, SpecBase(spec))
    IN  sign \o Zeros(spec.width - Len(sign) - Len(digs)) \o digs

\* repr() of a scalar
Repr(v) ==
    CASE v.t = "int" -> ToString(v.i)
      [] v.t = "long" -> ToString(v.i) \o "L"
      [] v.t = "bool" -> (IF v.i = 1 THEN "True" ELSE "False")
      [] v.t = "float" ->
            (IF v.h < 0 THEN "-" ELSE "")
            \o ToString((IF v.h < 0 THEN 0 - v.h ELSE v.h) \div 2)
            \o (IF v.h % 2 = 0 THEN ".0" ELSE ".5")
      [] v.t = "str" -> "'" \o v.s \o "'"
      [] v.t = "NoneType" -> "None"
      [] OTHER -> "<" \o v.t \o ">"

\* the builtin hash(): an int hashes to itself except that -1 hashes to -2;
\* numbers equal by value hash alike.  The hash of a tuple is a fixed
\* function of its items' hashes and stays an uninterpreted term.
PyHash(v) ==
    CASE v.t \in {"int", "long", "bool"} ->
            [t |-> "int", i |-> IF v.i = -1 THEN -2 ELSE v.i]
      [] v.t = "float" ->
            (IF v.h % 2 = 0
             THEN [t |-> "int", i |-> IF v.h = -2 THEN -2 ELSE v.h \div 2]
             ELSE [t |-> "floathash", h |-> v.h])
      [] v.t = "str" -> [t |-> "strhash", s |-> v.s]
      [] OTHER -> [t |-> "idhash"]

RECURSIVE HashAll(_)
HashAll(items) ==
    IF items = <<>> THEN <<>>
    ELSE <<PyHash(Head(items))>> \o HashAll(Tail(items))

TupleHash(items) == [t |-> "tuplehash", of |-> HashAll(items)]

----------------------------------------------------------------------------
(* Attributes *)

\* what the class (and object) define: found by hasattr on every instance
ClassAttrs ==
    {"__new__", "__setattr__", "__delattr__", "__repr__", "__str__",
     "__format__", "__hash__", "__eq__", "__ne__", "__lt__", "__gt__",
     "__le__", "__ge__", "__int__", "__nonzero__", "__len__", "__getitem__",
     "__iter__", "__reversed__", "__contains__",
     "__doc__", "__module__", "__dict__", "__class__"}

EmptyDict == [n \in {} |-> PyNone]

\* object.__new__(cls)
ObjectNew(cls) == [t |-> cls, dict |-> EmptyDict]

\* hasattr(obj, name)
HasAttr(obj, name) == name \in DOMAIN obj.dict \/ name \in ClassAttrs

\* dict.update: the entries of upd win
DictUpdate(d, upd) ==
    [n \in DOMAIN d \cup DOMAIN upd |-> IF n \in DOMAIN upd THEN upd[n] ELSE d[n]]

\* object.__setattr__(obj, name, value)
ObjectSetAttr(obj, name, value) ==
    [obj EXCEPT !.dict = DictUpdate(obj.dict, [n \in {name} |-> value])]

NotWritable(obj, name) ==
    Raise("AttributeError",
          "attribute " \o Repr(PyStr(name)) \o " of " \o Repr(PyStr(obj.t))
              \o " objects is not writable")

NoAttribute(obj, name) ==
    Raise("AttributeError",
          Repr(PyStr(obj.t)) \o " object has no attribute " \o Repr(PyStr(name)))

\* subrange.__setattr__ without its hasattr guard
subrange_setattr_NoGuard(obj, name, value) == Return(ObjectSetAttr(obj, name, value))

\* subrange.__setattr__: returns the updated instance, or raises
subrange_setattr(obj, name, value) ==
    IF HasAttr(obj, name) THEN NotWritable(obj, name)
    ELSE Return(ObjectSetAttr(obj, name, value))

\* subrange.__delattr__ with one message for every name
subrange_delattr_OneMessage(obj, name) == NotWritable(obj, name)

\* subrange.__delattr__: always raises
subrange_delattr(obj, name) ==
    IF HasAttr(obj, name) THEN NotWritable(obj, name)
    ELSE NoAttribute(obj, name)

----------------------------------------------------------------------------
(* Rendering of subrange *)

\* subrange.__format__ writing both limits of every instance
subrange_format_AlwaysPair(obj, spec) ==
    IF spec = EmptySpec /\ HasAttr(obj, "_subrange__str")
    THEN obj.dict["_subrange__str"]
    ELSE PyStr(FormatInt(obj.dict["min"].i, spec) \o ".."
                   \o FormatInt(obj.dict["max"].i, spec))

\* subrange.__format__
subrange_format(obj, spec) ==
    IF spec = EmptySpec /\ HasAttr(obj, "_subrange__str")
    THEN obj.dict["_subrange__str"]
    ELSE IF obj.dict["min"].i = obj.dict["max"].i
    THEN PyStr(FormatInt(obj.dict["min"].i, spec))
    ELSE PyStr(FormatInt(obj.dict["min"].i, spec) \o ".."
                   \o FormatInt(obj.dict["max"].i, spec))

\* subrange.__repr__
subrange_repr(obj) == obj.dict["_subrange__repr"]

----------------------------------------------------------------------------
(* Construction of subrange *)

\* the orders in which a build may iterate the set of absent keys
SetOrders == {<<"max", "min">>, <<"min", "max">>}

JoinAbsent(order, absent) ==
    LET a == IF order[1] \in absent THEN Repr(PyStr(order[1])) ELSE ""
        b == IF order[2] \in absent THEN Repr(PyStr(order[2])) ELSE ""
    IN  IF a # "" /\ b # "" THEN a \o ", " \o b ELSE a \o b

\* the argument resolution copying only the lower limit of an instance
ResolveArgs_CopyCollapsed(args, order) ==
    IF Len(args) = 0 THEN Raise("ValueError", "initializer omitted")
    ELSE IF Len(args) = 1 THEN
        LET arg == args[1] IN
        IF IsSubrange(arg) THEN Return(<<arg.dict["min"], arg.dict["min"]>>)
        ELSE IF arg.t = "dict" THEN
            LET absent_entries == {"min", "max"} \ DOMAIN arg.d IN
            IF absent_entries # {}
            THEN Raise("TypeError",
                       "initializing dictionary does not define "
                           \o JoinAbsent(order, absent_entries))
            ELSE Return(<<arg.d["min"], arg.d["max"]>>)
        ELSE IF arg.t \in {"tuple", "list"} THEN
            IF Len(arg.items) # 2
            THEN Raise("TypeError",
                       "initializing " \o Repr(PyStr(arg.t)) \o " contains "
                           \o ToString(Len(arg.items)) \o " item(s), must be 2")
            ELSE Return(<<arg.items[1], arg.items[2]>>)
        ELSE Return(<<arg, arg>>)
    ELSE IF Len(args) = 2 THEN Return(<<args[1], args[2]>>)
    ELSE Raise("ValueError", "too many initializers")

\* the argument resolution taking the first two of any longer argument list
ResolveArgs_IgnoreExtra(args, order) ==
    IF Len(args) = 0 THEN Raise("ValueError", "initializer omitted")
    ELSE IF Len(args) = 1 THEN
        LET arg == args[1] IN
        IF IsSubrange(arg) THEN Return(<<arg.dict["min"], arg.dict["max"]>>)
        ELSE IF arg.t = "dict" THEN
            LET absent_entries == {"min", "max"} \ DOMAIN arg.d IN
            IF absent_entries # {}
            THEN Raise("TypeError",
                       "initializing dictionary does not define "
                           \o JoinAbsent(order, absent_entries))
            ELSE Return(<<arg.d["min"], arg.d["max"]>>)
        ELSE IF arg.t \in {"tuple", "list"} THEN
            IF Len(arg.items) # 2
            THEN Raise("TypeError",
                       "initializing " \o Repr(PyStr(arg.t)) \o " contains "
                           \o ToString(Len(arg.items)) \o " item(s), must be 2")
            ELSE Return(<<arg.items[1], arg.items[2]>>)
        ELSE Return(<<arg, arg>>)
    ELSE Return(<<args[1], args[2]>>)

\* the argument resolution of subrange.__new__: the pair <<min_, max_>>
ResolveArgs(args, order) ==
    IF Len(args) = 0 THEN Raise("ValueError", "initializer omitted")
    ELSE IF Len(args) = 1 THEN
        LET arg == args[1] IN
        IF IsSubrange(arg) THEN Return(<<arg.dict["min"], arg.dict["max"]>>)
        ELSE IF arg.t = "dict" THEN
            LET absent_entries == {"min", "max"} \ DOMAIN arg.d IN
            IF absent_entries # {}
            THEN Raise("TypeError",
                       "initializing dictionary does not define "
                           \o JoinAbsent(order, absent_entries))
            ELSE Return(<<arg.d["min"], arg.d["max"]>>)
        ELSE IF arg.t \in {"tuple", "list"} THEN
            IF Len(arg.items) # 2
            THEN Raise("TypeError",
                       "initializing " \o Repr(PyStr(arg.t)) \o " contains "
                           \o ToString(Len(arg.items)) \o " item(s), must be 2")
            ELSE Return(<<arg.items[1], arg.items[2]>>)
        ELSE Return(<<arg, arg>>)
    ELSE IF Len(args) = 2 THEN Return(<<args[1], args[2]>>)
    ELSE Raise("ValueError", "too many initializers")

\* the pair hashed whatever the limits
HashOfLimits_AlwaysPair(min_, max_) == TupleHash(<<min_, max_>>)

\* hash((min_, max_) if min_ != max_ else min_)
HashOfLimits(min_, max_) ==
    IF min_.i # max_.i THEN TupleHash(<<min_, max_>>) ELSE PyHash(min_)

\* the initialisation of the new instance: the guarded assignments in order
InitInstance(cls, min_, max_) ==
    Then(subrange_setattr(ObjectNew(cls), "min", min_), LAMBDA s1 :
    Then(subrange_setattr(s1, "max", max_), LAMBDA s2 :
    Then(subrange_setattr(s2, "_subrange__hash", HashOfLimits(min_, max_)),
         LAMBDA s3 :
    Then(subrange_setattr(s3, "_subrange__repr",
             PyStr("subrange(" \o Repr(min_) \o ", " \o Repr(max_) \o ")")),
         LAMBDA s4 :
    subrange_setattr(s4, "_subrange__str", subrange_format(s4, EmptySpec))))))

\* the test "type(min_) is not int or type(max_) is not int"
InvalidLimits(min_, max_) == min_.t # "int" \/ max_.t # "int"

\* the test "min_ > max_" left out
ReversedLimits_NoCheck(min_, max_) == FALSE

\* the test "min_ > max_"
ReversedLimits(min_, max_) == min_.i > max_.i

\* subrange.__new__(cls, *args)
subrange_new(cls, args, order) ==
    Then(ResolveArgs(args, order), LAMBDA lim :
        IF InvalidLimits(lim[1], lim[2])
        THEN Raise("TypeError",
                   "invalid limits: min=" \o Repr(lim[1]) \o ", max=" \o Repr(lim[2]))
        ELSE IF ReversedLimits(lim[1], lim[2])
        THEN Raise("ValueError",
                   "reversed limits: min=" \o ToString(lim[1].i)
                       \o ", max=" \o ToString(lim[2].i))
        ELSE InitInstance(cls, lim[1], lim[2]))

----------------------------------------------------------------------------
(* Templates: str.format over the attribute dictionary *)

\* A template string is the value [t |-> "str", segs |-> segments]; a segment
\* is literal text [lit] or a replacement field [name, conv, spec], conv being
\* "" or "r".
PyTemplate(segs) == [t |-> "str", segs |-> segs]
Lit(text) == [lit |-> text]
Field(name, conv, spec) == [name |-> name, conv |-> conv, spec |-> spec]

\* the default of kwargs.get("str_spec", "{value}")
DefaultStrSpec == PyTemplate(<<Field("value", "", EmptySpec)>>)

\* format(v, spec) for the values a template can reach
FormatValue(v, spec) ==
    CASE v.t = "subrange" -> Return(subrange_format(v, spec))
      [] v.t \in {"int", "long", "bool"} -> Return(PyStr(FormatInt(v.i, spec)))
      [] v.t = "str" /\ "s" \in DOMAIN v ->
            (IF spec = EmptySpec THEN Return(v)
             ELSE Raise("ValueError", "Unknown format code for object of type 'str'"))
      [] OTHER -> (IF spec = EmptySpec THEN Return(PyStr(Repr(v)))
                   ELSE Raise("ValueError", "Invalid format specifier"))

\* repr(v) for the values a template can reach
ReprValue(v) == IF v.t = "subrange" THEN subrange_repr(v) ELSE PyStr(Repr(v))

\* one replacement field against the attribute dictionary
RenderField(seg, d) ==
    IF seg.name \notin DOMAIN d THEN Raise("KeyError", Repr(PyStr(seg.name)))
    ELSE IF seg.conv = "r" THEN FormatValue(ReprValue(d[seg.name]), seg.spec)
    ELSE FormatValue(d[seg.name], seg.spec)

\* str.format with the dictionary d as keywords: the text, or the first error
RECURSIVE RenderTemplate(_, _)
RenderTemplate(segs, d) ==
    IF segs = <<>> THEN Return(PyStr(""))
    ELSE Then(IF "lit" \in DOMAIN Head(segs) THEN Return(PyStr(Head(segs).lit))
              ELSE RenderField(Head(segs), d),
              LAMBDA first :
         Then(RenderTemplate(Tail(segs), d), LAMBDA rest :
         Return(PyStr(first.s \o rest.s))))

----------------------------------------------------------------------------
(* subrangef *)

\* kwargs.get("str_spec", "{value}")
StrSpecOf(kwargs) ==
    IF "str_spec" \in DOMAIN kwargs THEN kwargs["str_spec"] ELSE DefaultStrSpec

\* self.__dict__.update(kwargs) without the preceding kwargs.update
MergeKwargs_KwargsWin(obj, kwargs) == [obj EXCEPT !.dict = DictUpdate(obj.dict, kwargs)]

\* kwargs.update(self.__dict__); self.__dict__.update(kwargs)
MergeKwargs(obj, kwargs) ==
    LET merged == DictUpdate(kwargs, obj.dict)
    IN  [obj EXCEPT !.dict = DictUpdate(obj.dict, merged)]

\* subrangef.__new__ storing the instance itself as its value
subrangef_new_SelfValue(cls, args, kwargs, order) ==
    Then(subrange_new(cls, args, order), LAMBDA s0 :
    Then(Return(MergeKwargs(s0, kwargs)), LAMBDA s1 :
    Then(subrange_setattr(s1, "value", s1), LAMBDA s2 :
    Then(RenderTemplate(StrSpecOf(s2.dict).segs, s2.dict), LAMBDA txt :
    subrange_setattr(s2, "_subrangef__str", txt)))))

\* subrangef.__new__(cls, *args, **kwargs)
subrangef_new(cls, args, kwargs, order) ==
    Then(subrange_new(cls, args, order), LAMBDA s0 :
    Then(Return(MergeKwargs(s0, kwargs)), LAMBDA s1 :
    Then(subrange_new("subrange", args, order), LAMBDA v :
    Then(subrange_setattr(s1, "value", v), LAMBDA s2 :
    Then(RenderTemplate(StrSpecOf(s2.dict).segs, s2.dict), LAMBDA txt :
    subrange_setattr(s2, "_subrangef__str", txt))))))

\* subrangef.__format__ returning the cached rendering for every specification
subrangef_format_TemplateAlways(obj, spec) == obj.dict["_subrangef__str"]

\* subrangef.__format__
subrangef_format(obj, spec) ==
    IF spec = EmptySpec THEN obj.dict["_subrangef__str"]
    ELSE subrange_format(obj.dict["value"], spec)

\* obj.__format__(spec) by the class of obj
Format(obj, spec) ==
    IF obj.t = "subrangef" THEN subrangef_format(obj, spec)
    ELSE subrange_format(obj, spec)

\* subrange.__str__: self.__format__(format_spec="")
subrange_str(obj) == Format(obj, EmptySpec)

----------------------------------------------------------------------------
(* Comparison, hashing, conversion, indexing *)

\* self.min and self.max as numbers
MinOf(obj) == obj.dict["min"].i
MaxOf(obj) == obj.dict["max"].i

\* subrange.__hash__
subrange_hash(obj) == obj.dict["_subrange__hash"]

\* subrange.__eq__ comparing the lower limits only
subrange_eq_MinOnly(obj, b) ==
    IF IsSubrange(b) THEN MinOf(obj) = MinOf(b)
    ELSE MinOf(obj) = MaxOf(obj) /\ PyEq(obj.dict["max"], b)

\* subrange.__eq__
subrange_eq(obj, b) ==
    IF IsSubrange(b) THEN MinOf(obj) = MinOf(b) /\ MaxOf(obj) = MaxOf(b)
    ELSE MinOf(obj) = MaxOf(obj) /\ PyEq(obj.dict["max"], b)

\* subrange.__ne__
subrange_ne(obj, b) == ~subrange_eq(obj, b)

\* subrange.__lt__ comparing from the lower limit
subrange_lt_ByMin(obj, b) ==
    IF IsSubrange(b) THEN MinOf(obj) < MinOf(b)
    ELSE PyLt(obj.dict["min"], b)

\* subrange.__lt__
subrange_lt(obj, b) ==
    IF IsSubrange(b) THEN MaxOf(obj) < MinOf(b)
    ELSE PyLt(obj.dict["max"], b)

\* subrange.__gt__ comparing the upper limits
subrange_gt_ByMax(obj, b) ==
    IF IsSubrange(b) THEN MaxOf(obj) > MaxOf(b)
    ELSE PyGt(obj.dict["max"], b)

\* subrange.__gt__
subrange_gt(obj, b) ==
    IF IsSubrange(b) THEN MinOf(obj) > MaxOf(b)
    ELSE PyGt(obj.dict["min"], b)

\* subrange.__le__ as the negation of greater-than
subrange_le_NotGreater(obj, b) == ~subrange_gt(obj, b)

\* subrange.__le__
subrange_le(obj, b) == subrange_lt(obj, b) \/ subrange_eq(obj, b)

\* subrange.__ge__
subrange_ge(obj, b) == subrange_gt(obj, b) \/ subrange_eq(obj, b)

\* subrange.__int__ returning the lower limit of any instance
subrange_int_First(obj) == Return(obj.dict["min"])

\* subrange.__int__
subrange_int(obj) ==
    IF MinOf(obj) # MaxOf(obj)
    THEN Raise("TypeError",
               "subrange contains more than one item and cannot be converted to 'int'")
    ELSE Return(obj.dict["min"])

\* subrange.__nonzero__ false for any instance that contains zero
subrange_nonzero_AnyZero(obj) == ~(MinOf(obj) <= 0 /\ 0 <= MaxOf(obj))

\* subrange.__nonzero__
subrange_nonzero(obj) == subrange_ne(obj, PyInt(0))

\* subrange.__len__
subrange_len(obj) == MaxOf(obj) - MinOf(obj) + 1

\* subrange.__getitem__ with the negative range taken one too wide
subrange_getitem_WideNegative(obj, key) ==
    IF ~IsInstanceInt(key)
    THEN Raise("TypeError",
               obj.t \o " indices must be integers, not " \o key.t)
    ELSE LET span == MaxOf(obj) - MinOf(obj) IN
         IF 0 <= key.i /\ key.i <= span THEN Return(PyInt(MinOf(obj) + key.i))
         ELSE IF (0 - span) <= key.i + 2 /\ key.i + 1 <= 0
         THEN Return(PyInt(MaxOf(obj) + key.i + 1))
         ELSE Raise("IndexError", obj.t \o " index out of range")

\* subrange.__getitem__
subrange_getitem(obj, key) ==
    IF ~IsInstanceInt(key)
    THEN Raise("TypeError",
               obj.t \o " indices must be integers, not " \o key.t)
    ELSE LET span == MaxOf(obj) - MinOf(obj) IN
         IF 0 <= key.i /\ key.i <= span THEN Return(PyInt(MinOf(obj) + key.i))
         ELSE IF (0 - span) <= key.i + 1 /\ key.i + 1 <= 0
         THEN Return(PyInt(MaxOf(obj) + key.i + 1))
         ELSE Raise("IndexError", obj.t \o " index out of range")

----------------------------------------------------------------------------
(* Generators: __iter__ and __reversed__ *)

\* A generator is [fn, pc, cur, stop, step, got]: pc is "created" until the
\* first next() runs the body up to its first yield; cur, stop, step are the
\* xrange being walked; got is what the consumer has collected from it.
NewGenerator(fn) ==
    [fn |-> fn, pc |-> "created", cur |-> 0, stop |-> 0, step |-> 0, got |-> <<>>]

\* subrange.__iter__
subrange_iter(obj) == NewGenerator("__iter__")

\* subrange.__reversed__
subrange_reversed(obj) == NewGenerator("__reversed__")

\* entering the body with xrange(self.min, self.max) in __iter__
EnterBody_ExclusiveMax(g, obj) ==
    IF g.pc # "created" THEN g
    ELSE IF g.fn = "__iter__"
    THEN [g EXCEPT !.pc = "running", !.cur = MinOf(obj),
                   !.stop = MaxOf(obj), !.step = 1]
    ELSE [g EXCEPT !.pc = "running", !.cur = MaxOf(obj),
                   !.stop = MinOf(obj) - 1, !.step = -1]

\* entering the body: the xrange each method builds from the instance
EnterBody(g, obj) ==
    IF g.pc # "created" THEN g
    ELSE IF g.fn = "__iter__"
    THEN [g EXCEPT !.pc = "running", !.cur = MinOf(obj),
                   !.stop = MaxOf(obj) + 1, !.step = 1]
    ELSE [g EXCEPT !.pc = "running", !.cur = MaxOf(obj),
                   !.stop = MinOf(obj) - 1, !.step = -1]

\* whether the xrange has an item left
XrangeHasNext(g) == IF g.step > 0 THEN g.cur < g.stop ELSE g.cur > g.stop

\* next(g): the generator afterwards
GeneratorNext(g, obj) ==
    LET b == EnterBody(g, obj) IN
    IF b.pc = "finished" THEN b
    ELSE IF XrangeHasNext(b)
    THEN [b EXCEPT !.cur = b.cur + b.step, !.got = Append(b.got, b.cur)]
    ELSE [b EXCEPT !.pc = "finished"]

\* next(g): what the caller receives
GeneratorYield(g, obj) ==
    LET b == EnterBody(g, obj) IN
    IF b.pc # "finished" /\ XrangeHasNext(b) THEN Return(PyInt(b.cur))
    ELSE Raise("StopIteration", "")

\* the builtin <= between two scalars
PyLe(x, y) ==
    IF IsNumber(x) /\ IsNumber(y) THEN Twice(x) <= Twice(y)
    ELSE IF IsNumber(x) THEN y.t # "NoneType"
    ELSE IF IsNumber(y) THEN x.t = "NoneType"
    ELSE x = y

\* subrange.__contains__ with the upper limit left out
subrange_contains_Exclusive(obj, item) ==
    IF IsSubrange(item)
    THEN subrange_ge(item, obj.dict["min"]) /\ subrange_lt(item, obj.dict["max"])
    ELSE PyLe(obj.dict["min"], item) /\ ~PyLe(obj.dict["max"], item)

\* subrange.__contains__: self.min <= item <= self.max; against an item that
\* is itself a subrange the builtin falls back on the item's reflected method
subrange_contains(obj, item) ==
    IF IsSubrange(item)
    THEN subrange_ge(item, obj.dict["min"]) /\ subrange_le(item, obj.dict["max"])
    ELSE PyLe(obj.dict["min"], item) /\ PyLe(item, obj.dict["max"])

----------------------------------------------------------------------------
(* Hashed containers: the lookups a dict or set makes with its keys *)

\* hash(x)
HashOf(x) == IF IsSubrange(x) THEN subrange_hash(x) ELSE PyHash(x)

\* x == y as the interpreter dispatches it: the subrange operand decides
Equal(x, y) ==
    IF IsSubrange(x) THEN subrange_eq(x, y)
    ELSE IF IsSubrange(y) THEN subrange_eq(y, x)
    ELSE PyEq(x, y)

\* whether looking up key finds the entry stored under the key stored
DictFinds(stored, key) == HashOf(stored) = HashOf(key) /\ Equal(stored, key)

----------------------------------------------------------------------------
(* Inputs *)

IntPairs == {<<PyInt(a), PyInt(b)>> : a \in Ints, b \in Ints}

\* the valid plain instances, each built by the constructor
Subranges ==
    {subrange_new("subrange", p, <<"max", "min">>).val :
        p \in {q \in IntPairs : q[1].i <= q[2].i}}

BadScalars == {PyStr("a"), PyFloat(3), PyFloat(2), PyLong(1), PyBool(TRUE), PyNone}

\* the pairs given inside a tuple, a list or a dictionary
FewPairs == {<<PyInt(a), PyInt(b)>> : a, b \in {-1, MaxAbs}}

DictArgs ==
    {PyDict([k \in {"min", "max"} |-> p[IF k = "min" THEN 1 ELSE 2]]) : p \in FewPairs}
    \cup {PyDict([k \in {"min"} |-> PyInt(1)]),
          PyDict([k \in {"max"} |-> PyInt(1)]),
          PyDict([k \in {"mmm"} |-> PyInt(1)]),
          PyDict([k \in {"min", "max", "mmm"} |-> PyInt(1)]),
          PyDict([k \in {"min", "max"} |-> IF k = "min" THEN PyStr("a") ELSE PyInt(2)])}

SeqArgs ==
    {PyTuple(p) : p \in FewPairs} \cup {PyList(p) : p \in FewPairs}
    \cup {PyTuple(<<PyInt(1)>>), PyList(<<PyInt(1), PyInt(2), PyInt(3)>>),
          PyTuple(<<>>), PyTuple(<<PyInt(1), PyFloat(3)>>)}

\* the argument lists given to the constructors
NewArgs ==
    {<<>>, <<PyInt(1), PyInt(2), PyInt(3)>>, <<PyStr("a"), PyInt(2), PyInt(1), PyInt(0)>>}
    \cup IntPairs
    \cup {<<PyInt(a)>> : a \in Ints}
    \cup {<<x>> : x \in BadScalars \cup DictArgs \cup SeqArgs \cup Subranges}
    \cup {<<PyInt(1), x>> : x \in BadScalars}
    \cup {<<x, PyInt(0 - MaxAbs)>> : x \in BadScalars}

\* the format specifications given to format(): "", "d", "02X", "04b"
FormatSpecs == {EmptySpec, FmtSpec("d", 0), FmtSpec("X", 2), FmtSpec("b", 4)}

\* templates given as str_spec
Templates ==
    {PyTemplate(<<Field("min", "", EmptySpec), Lit("-"), Field("max", "", EmptySpec)>>),
     PyTemplate(<<Lit("0x"), Field("value", "", FmtSpec("X", 2)), Lit(" "),
                  Field("id", "r", EmptySpec)>>)}

\* the keyword arguments given to subrangef
KwargSets ==
    {EmptyDict,
     [k \in {"id"} |-> PyStr("X")],
     [k \in {"min"} |-> PyInt(99)],
     [k \in {"max"} |-> PyInt(-99)],
     [k \in {"value"} |-> PyStr("v")],
     [k \in {"_subrangef__str"} |-> PyStr("s")]}
    \cup {[k \in {"str_spec"} |-> tpl] : tpl \in Templates}
    \cup {[k \in {"str_spec", "id"} |-> IF k = "id" THEN PyStr("X") ELSE tpl] :
             tpl \in Templates}
    \cup {[k \in {"str_spec", "min"} |-> IF k = "min" THEN PyInt(99) ELSE tpl] :
             tpl \in Templates}

\* the names and values of attribute assignments and deletions
AttrNames == {"min", "max", "myattr", "myattr2", "value", "__len__",
              "_subrange__hash", "_subrange__str"}
AttrValues == {PyInt(111), PyInt(123)}

----------------------------------------------------------------------------
(* The instance life cycle: construction, then attribute writes and deletes *)

\* an outcome tagged with the operation that produced it; a construction is
\* tagged with the class and the arguments it was given
Did(op, name, o) == [op |-> op, name |-> name] @@ o
DidNew(cls, args, kwargs, order, o) ==
    [op |-> "new", name |-> cls, args |-> args, kwargs |-> kwargs, order |-> order] @@ o

Init ==
    /\ self = NoObj
    /\ other = PyNone
    /\ iters = <<>>
    /\ outcome = Did("", "", Return(PyNone))

\* self = subrange(*args), the one construction of a behaviour
New(args, order) ==
    /\ self = NoObj /\ outcome.op = ""
    /\ LET r == subrange_new("subrange", args, order) IN
         /\ self' = IF Raised(r) THEN NoObj ELSE r.val
         /\ outcome' = DidNew("subrange", args, EmptyDict, order,
                              IF Raised(r) THEN r ELSE Return(PyNone))
    /\ UNCHANGED <<other, iters>>

\* self = subrangef(*args, **kwargs), the one construction of a behaviour
NewF(args, kwargs, order) ==
    /\ self = NoObj /\ outcome.op = ""
    /\ LET r == subrangef_new("subrangef", args, kwargs, order) IN
         /\ self' = IF Raised(r) THEN NoObj ELSE r.val
         /\ outcome' = DidNew("subrangef", args, kwargs, order,
                              IF Raised(r) THEN r ELSE Return(PyNone))
    /\ UNCHANGED <<other, iters>>

\* self.name = value
SetAttr(name, value) ==
    /\ self # NoObj
    /\ LET r == subrange_setattr(self, name, value) IN
         /\ self' = IF Raised(r) THEN self ELSE r.val
         /\ outcome' = Did("setattr", name, IF Raised(r) THEN r ELSE Return(PyNone))
    /\ UNCHANGED <<other, iters>>

\* del self.name
DelAttr(name) ==
    /\ self # NoObj
    /\ outcome' = Did("delattr", name, subrange_delattr(self, name))
    /\ UNCHANGED <<self, other, iters>>

Next ==
    \/ \E args \in NewArgs, order \in SetOrders : New(args, order)
    \/ \E args \in NewArgs, kwargs \in KwargSets, order \in SetOrders :
           NewF(args, kwargs, order)
    \/ \E name \in AttrNames, value \in AttrValues : SetAttr(name, value)
    \/ \E name \in AttrNames : DelAttr(name)

Spec == Init /\ [][Next]_vars

----------------------------------------------------------------------------
(* Operands *)

\* annotated instances: the same limits under different annotations
Annotated ==
    {subrangef_new("subrangef", p, kw, <<"max", "min">>).val :
        p \in {q \in FewPairs : q[1].i <= q[2].i},
        kw \in {EmptyDict, [k \in {"id"} |-> PyStr("X")]}
               \cup {[k \in {"str_spec", "id"} |->
                         IF k = "id" THEN PyStr("Y") ELSE tpl] : tpl \in Templates}}

\* the instances operated on
Instances == Subranges \cup Annotated

\* instances lying just above, or touching, the upper limit hi of another
Shifted ==
    {subrange_new("subrange", <<PyInt(hi + d), PyInt(hi + 5)>>, <<"max", "min">>).val :
        hi \in Ints, d \in {0, 1}}

\* integers wide enough to index past either end of the longest instance
OpInts == (0 - (2 * MaxAbs + 2)) .. (2 * MaxAbs + 2)

\* the right-hand operands, keys and probes
Operands ==
    {PyInt(i) : i \in OpInts}
    \cup {PyFloat(h) : h \in (0 - (2 * MaxAbs + 1)) .. (2 * MaxAbs + 1)}
    \cup {PyStr("3..4"), PyNone, PyLong(1), PyBool(TRUE), PyBool(FALSE)}
    \cup Instances \cup Shifted

----------------------------------------------------------------------------
(* The operators applied to an instance and an operand *)

OpInit ==
    /\ self \in Instances
    /\ other \in Operands
    /\ iters = <<>>
    /\ outcome = Did("", "", Return(PyNone))

\* an operation that leaves both operands as they are
Apply(op, o) ==
    /\ outcome' = Did(op, "", o)
    /\ UNCHANGED <<self, other, iters>>

OpEq == Apply("eq", Return(PyBool(subrange_eq(self, other))))
OpNe == Apply("ne", Return(PyBool(subrange_ne(self, other))))
OpLt == Apply("lt", Return(PyBool(subrange_lt(self, other))))
OpGt == Apply("gt", Return(PyBool(subrange_gt(self, other))))
OpLe == Apply("le", Return(PyBool(subrange_le(self, other))))
OpGe == Apply("ge", Return(PyBool(subrange_ge(self, other))))
OpHash == Apply("hash", Return(subrange_hash(self)))
OpInt == Apply("int", subrange_int(self))
OpNonzero == Apply("nonzero", Return(PyBool(subrange_nonzero(self))))
OpLen == Apply("len", Return(PyInt(subrange_len(self))))
OpGetItem == Apply("getitem", subrange_getitem(self, other))
OpContains == Apply("contains", Return(PyBool(subrange_contains(self, other))))
\* repr(self)
OpRepr == Apply("repr", Return(subrange_repr(self)))
\* str(self)
OpStr == Apply("str", Return(subrange_str(self)))
\* format(self, spec)
OpFormat(spec) ==
    /\ outcome' = [spec |-> spec] @@ Did("format", "", Return(Format(self, spec)))
    /\ UNCHANGED <<self, other, iters>>
\* d = {self: 111}; other in d
OpLookup == Apply("lookup", Return(PyBool(DictFinds(self, other))))
\* d = {other: 222}; self in d
OpLookupRev == Apply("lookuprev", Return(PyBool(DictFinds(other, self))))

OpNext ==
    \/ OpEq \/ OpNe \/ OpLt \/ OpGt \/ OpLe \/ OpGe
    \/ OpHash \/ OpInt \/ OpNonzero \/ OpLen \/ OpGetItem \/ OpContains
    \/ OpLookup \/ OpLookupRev
    \/ OpRepr \/ OpStr \/ \E spec \in FormatSpecs : OpFormat(spec)

OpSpec == OpInit /\ [][OpNext]_vars

----------------------------------------------------------------------------
(* Traversals of an instance *)

IterInit ==
    /\ self \in Instances
    /\ other = PyNone
    /\ iters = <<>>
    /\ outcome = Did("", "", Return(PyNone))

\* iter(self)
Iter ==
    /\ Len(iters) < MaxIters
    /\ iters' = Append(iters, subrange_iter(self))
    /\ outcome' = Did("iter", Len(iters) + 1, Return(PyNone))
    /\ UNCHANGED <<self, other>>

\* reversed(self)
Reversed ==
    /\ Len(iters) < MaxIters
    /\ iters' = Append(iters, subrange_reversed(self))
    /\ outcome' = Did("reversed", Len(iters) + 1, Return(PyNone))
    /\ UNCHANGED <<self, other>>

\* next(iters[k]); the consumer appends what it receives to got
NextItem(k) ==
    /\ iters' = [iters EXCEPT ![k] = GeneratorNext(iters[k], self)]
    /\ outcome' = Did("next", k, GeneratorYield(iters[k], self))
    /\ UNCHANGED <<self, other>>

IterNext ==
    \/ Iter
    \/ Reversed
    \/ \E k \in DOMAIN iters : NextItem(k)

IterSpec == IterInit /\ [][IterNext]_vars

----------------------------------------------------------------------------
(* Properties of the life cycle *)

\* C1: every instance that construction returns, whatever the argument form,
\* has min and max that are exactly of type int, with min <= max.
C1_ValidInstance ==
    self # NoObj =>
        /\ {"min", "max"} \subseteq DOMAIN self.dict
        /\ self.dict["min"].t = "int"
        /\ self.dict["max"].t = "int"
        /\ self.dict["min"].i <= self.dict["max"].i

\* an annotated instance just built from a dictionary with min < max
C1_Witness ==
    /\ outcome.op = "new" /\ self # NoObj /\ self.t = "subrangef"
    /\ Len(outcome.args) = 1 /\ outcome.args[1].t = "dict"
    /\ self.dict["min"].i < self.dict["max"].i

\* C2: no attribute-set or attribute-delete attempt, successful or failing,
\* changes or removes a field the instance already has; so min, max, the cached
\* hash and the cached renderings keep their values of construction.
C2_FieldsFrozen ==
    [][self # NoObj =>
         /\ self' # NoObj
         /\ \A n \in DOMAIN self.dict :
                n \in DOMAIN self'.dict /\ self'.dict[n] = self.dict[n]]_vars

\* an extra field was set, and a later write to min was rejected
C2_Witness ==
    /\ self # NoObj /\ "myattr" \in DOMAIN self.dict
    /\ outcome.op = "setattr" /\ outcome.name = "min" /\ Raised(outcome)
    /\ self.dict["min"].i # 111 /\ self.dict["min"].i # 123

NotWritableMsg(cls, name) ==
    "attribute '" \o name \o "' of '" \o cls \o "' objects is not writable"

NoAttributeMsg(cls, name) ==
    "'" \o cls \o "' object has no attribute '" \o name \o "'"

\* C3 as claimed: a write succeeds exactly when the name was never set on the
\* instance, and a delete reports no-such-attribute exactly when the name was
\* never set.
C3_AsClaimed ==
    [][self # NoObj =>
         /\ outcome'.op = "setattr" =>
                (Raised(outcome') <=> outcome'.name \in DOMAIN self.dict)
         /\ outcome'.op = "delattr" =>
                (outcome'.msg = NoAttributeMsg(self.t, outcome'.name)
                     <=> outcome'.name \notin DOMAIN self.dict)]_vars

\* C3 amended: a name is taken when the instance has it set or the class
\* defines it (a method, __doc__, __dict__, __class__).  Writing a name not
\* taken succeeds and adds just that field; writing a taken name fails with
\* the not-writable error naming the field and the type; deleting a taken
\* name fails with the same error; deleting any other name fails with the
\* no-such-attribute error.  Every failing attempt leaves the fields as
\* they were.
C3_WriteOnce ==
    [][self # NoObj =>
         LET n == outcome'.name
             taken == n \in DOMAIN self.dict \/ n \in ClassAttrs
         IN  /\ outcome'.op = "setattr" =>
                    IF taken
                    THEN /\ outcome'.exc = "AttributeError"
                         /\ outcome'.msg = NotWritableMsg(self.t, n)
                         /\ self' = self
                    ELSE /\ ~Raised(outcome')
                         /\ self'.t = self.t
                         /\ DOMAIN self'.dict = DOMAIN self.dict \cup {n}
                         /\ self'.dict[n] \in AttrValues
                         /\ \A m \in DOMAIN self.dict : self'.dict[m] = self.dict[m]
             /\ outcome'.op = "delattr" =>
                    /\ self' = self
                    /\ outcome'.exc = "AttributeError"
                    /\ outcome'.msg = IF taken THEN NotWritableMsg(self.t, n)
                                      ELSE NoAttributeMsg(self.t, n)]_vars

\* two extra fields were set once each, and deleting a name never set was refused
C3_Witness ==
    /\ self # NoObj /\ self.t = "subrange"
    /\ {"myattr", "value"} \subseteq DOMAIN self.dict
    /\ outcome.op = "delattr" /\ outcome.name = "myattr2"
    /\ outcome.msg = "'subrange' object has no attribute 'myattr2'"

\* the argument list resolves to valid bounds
ValidArgs(args, order) == ~Raised(subrange_new("subrange", args, order))

Reserved == {"min", "max", "value"}

WithoutLimits(kwargs) == [k \in DOMAIN kwargs \ {"min", "max"} |-> kwargs[k]]

----------------------------------------------------------------------------
(* Properties of the operators *)

Lo == self.dict["min"].i
Hi == self.dict["max"].i

\* the operand is a number equal by value to the integer v
NumberEquals(b, v) == IsNumber(b) /\ Twice(b) = 2 * v

\* equality as the claim states it
EqualAsStated ==
    IF IsSubrange(other)
    THEN Lo = other.dict["min"].i /\ Hi = other.dict["max"].i
    ELSE Lo = Hi /\ NumberEquals(other, Lo)

\* C4: a == b is true iff b is an interval (plain or annotated) with the same
\* min and max, or b is no interval, a is single-element and the element
\* equals b by value; a != b is the negation of a == b.
C4_Equality ==
    /\ outcome.op = "eq" => outcome.val = PyBool(EqualAsStated)
    /\ outcome.op = "ne" => outcome.val = PyBool(~EqualAsStated)

\* two annotated instances that differ in their annotations compared equal
C4_Witness ==
    /\ outcome.op = "eq" /\ outcome.val = PyBool(TRUE)
    /\ self.t = "subrangef" /\ other.t = "subrangef" /\ self # other

\* the operand is one the claim about hashing covers: an interval or an int
IntervalOrInt == IsSubrange(other) \/ other.t = "int"

\* C5: a single-element interval hashes as its element and any other interval
\* as the pair (min, max); whenever an interval equals an interval or an int
\* their hashes are equal; so a lookup in a hashed container, with either of
\* the two as the stored key, finds the entry exactly when they are equal.
C5_HashConsistent ==
    /\ outcome.op = "hash" =>
           outcome.val = IF Lo = Hi THEN PyHash(PyInt(Lo))
                         ELSE TupleHash(<<PyInt(Lo), PyInt(Hi)>>)
    /\ (outcome.op = "eq" /\ outcome.val = PyBool(TRUE) /\ IntervalOrInt) =>
           HashOf(self) = HashOf(other)
    /\ (outcome.op = "eq" /\ other.t = "int" /\ Lo = Hi /\ other.i = Lo) =>
           outcome.val = PyBool(TRUE) /\ HashOf(self) = PyHash(other)
    /\ (outcome.op \in {"lookup", "lookuprev"} /\ IntervalOrInt) =>
           outcome.val = PyBool(EqualAsStated)

\* the entry stored under the int -1 was found with the interval -1..-1
C5_Witness ==
    /\ outcome.op = "lookuprev" /\ outcome.val = PyBool(TRUE)
    /\ other = PyInt(-1) /\ IsSubrange(self)

\* strict order as the claim states it: between intervals by their facing
\* limits, against a number by value, against anything else as the builtin
\* orders the limit and the operand
LessAsStated ==
    IF IsSubrange(other) THEN Hi < other.dict["min"].i
    ELSE IF IsNumber(other) THEN 2 * Hi < Twice(other)
    ELSE PyLt(PyInt(Hi), other)

GreaterAsStated ==
    IF IsSubrange(other) THEN Lo > other.dict["max"].i
    ELSE IF IsNumber(other) THEN 2 * Lo > Twice(other)
    ELSE PyGt(PyInt(Lo), other)

\* C6: a < b iff a.max < b.min, a < s iff a.max < s; a > b iff a.min > b.max,
\* a > s iff a.min > s.  An interval starting at hi+1 is above lo..hi; one
\* starting at hi is not.
C6_StrictOrder ==
    /\ outcome.op = "lt" => outcome.val = PyBool(LessAsStated)
    /\ outcome.op = "gt" => outcome.val = PyBool(GreaterAsStated)
    /\ (outcome.op = "lt" /\ IsSubrange(other) /\ other.dict["min"].i = Hi + 1) =>
           outcome.val = PyBool(TRUE)
    /\ (outcome.op = "lt" /\ IsSubrange(other) /\ other.dict["min"].i = Hi) =>
           outcome.val = PyBool(FALSE)

\* lo..hi with lo < hi was compared with hi..hi+5 and is not below it
C6_Witness ==
    /\ outcome.op = "lt" /\ outcome.val = PyBool(FALSE)
    /\ Lo < Hi /\ IsSubrange(other)
    /\ other.dict["min"].i = Hi /\ other.dict["max"].i = Hi + 5

\* the two are intervals that share an element and are not equal
OverlapUnequal ==
    /\ IsSubrange(other)
    /\ Lo <= other.dict["max"].i /\ other.dict["min"].i <= Hi
    /\ ~(Lo = other.dict["min"].i /\ Hi = other.dict["max"].i)

\* C7: a <= b is (a < b) or (a == b) and a >= b is (a > b) or (a == b); two
\* intervals that overlap and are unequal are neither <= nor >= each other.
C7_WeakOrder ==
    /\ outcome.op = "le" => outcome.val = PyBool(LessAsStated \/ EqualAsStated)
    /\ outcome.op = "ge" => outcome.val = PyBool(GreaterAsStated \/ EqualAsStated)
    /\ (OverlapUnequal /\ outcome.op \in {"le", "ge"}) => outcome.val = PyBool(FALSE)

\* a <= b was false for overlapping unequal intervals although b < a is false too
C7_Witness ==
    /\ outcome.op = "le" /\ outcome.val = PyBool(FALSE)
    /\ OverlapUnequal
    /\ ~subrange_lt(other, self)

\* C8: the size is hi - lo + 1, at least 1; an int index i succeeds iff
\* -len <= i <= len - 1 and then gives lo + i for i >= 0 and hi + 1 + i for
\* i < 0; any other int index raises IndexError, an index that is no int
\* raises TypeError.
C8_Indexing ==
    LET len == Hi - Lo + 1 IN
    /\ outcome.op = "len" => outcome.val = PyInt(len) /\ len >= 1
    /\ outcome.op = "getitem" =>
           IF other.t \in {"int", "bool"}
           THEN IF (0 - len) <= other.i /\ other.i <= len - 1
                THEN outcome.exc = ""
                     /\ outcome.val = PyInt(IF other.i >= 0 THEN Lo + other.i
                                            ELSE Hi + 1 + other.i)
                ELSE outcome.exc = "IndexError"
           ELSE outcome.exc = "TypeError"

\* the longest instance indexed at -len gave its min
C8_Witness ==
    /\ outcome.op = "getitem" /\ outcome.exc = ""
    /\ Hi - Lo = 2 * MaxAbs
    /\ other = PyInt(0 - (Hi - Lo + 1))
    /\ outcome.val = PyInt(Lo)

----------------------------------------------------------------------------
(* Properties of the traversals *)

\* the j-th item of a traversal by the method fn
ItemAt(fn, j) == IF fn = "__iter__" THEN Lo + j - 1 ELSE Hi - j + 1

\* what every consumer has collected is a prefix of its traversal, complete
\* once the generator has finished
C9_Collected ==
    \A k \in DOMAIN iters :
        /\ Len(iters[k].got) <= Hi - Lo + 1
        /\ \A j \in DOMAIN iters[k].got : iters[k].got[j] = ItemAt(iters[k].fn, j)
        /\ iters[k].pc = "finished" => Len(iters[k].got) = Hi - Lo + 1

\* a new generator starts with nothing collected; a step of generator k gives
\* the next item, or StopIteration after the last, and leaves every other
\* generator and the instance as they were
C9_Step ==
    /\ outcome'.op \in {"iter", "reversed"} =>
           /\ self' = self
           /\ Len(iters') = Len(iters) + 1
           /\ \A j \in DOMAIN iters : iters'[j] = iters[j]
           /\ iters'[Len(iters')].got = <<>>
    /\ outcome'.op = "next" =>
           LET k == outcome'.name
               n == Len(iters[k].got)
           IN  /\ self' = self
               /\ DOMAIN iters' = DOMAIN iters
               /\ \A j \in DOMAIN iters \ {k} : iters'[j] = iters[j]
               /\ IF n < Hi - Lo + 1
                  THEN /\ outcome'.exc = ""
                       /\ outcome'.val = PyInt(ItemAt(iters[k].fn, n + 1))
                       /\ iters'[k].got = Append(iters[k].got, ItemAt(iters[k].fn, n + 1))
                  ELSE /\ outcome'.exc = "StopIteration"
                       /\ iters'[k].got = iters[k].got
                       /\ iters'[k].pc = "finished"

\* C9: every traversal, whenever started and however interleaved with others,
\* yields lo, lo+1, .., hi in ascending order (hi, .., lo when reversed) and
\* then stops; stepping one generator changes neither another generator nor
\* the instance.
C9_Traversal == []C9_Collected /\ [][C9_Step]_vars

\* one traversal of the longest instance has finished while a reversed one,
\* started on the same instance, is two items in
C9_Witness ==
    /\ Len(iters) = 2
    /\ Hi - Lo = 2 * MaxAbs
    /\ iters[1].fn = "__iter__" /\ iters[1].pc = "finished"
    /\ iters[1].got = [j \in 1 .. (2 * MaxAbs + 1) |-> Lo + j - 1]
    /\ iters[2].fn = "__reversed__" /\ iters[2].pc = "running"
    /\ iters[2].got = <<Hi, Hi - 1>>

----------------------------------------------------------------------------
(* Properties of construction *)

\* subrange(lo, hi) as the two-integer form builds it
Canonical(lo, hi) == subrange_new("subrange", <<PyInt(lo), PyInt(hi)>>, <<"max", "min">>).val

\* the argument lists that state the bounds lo, hi in one of the accepted forms
FormsOf(lo, hi) ==
    LET p == <<PyInt(lo), PyInt(hi)>> IN
    {p, <<PyTuple(p)>>, <<PyList(p)>>,
     <<PyDict([k \in {"min", "max"} |-> IF k = "min" THEN p[1] ELSE p[2]])>>,
     <<Canonical(lo, hi)>>}
    \cup (IF lo = hi THEN {<<PyInt(lo)>>} ELSE {})

\* C11: for lo <= hi, subrange(lo, hi), subrange((lo, hi)) with a tuple or a
\* list, subrange({min: lo, max: hi}) and subrange(subrange(lo, hi)) all build
\* intervals equal to each other with the same hash, so copying is idempotent;
\* and subrange(v) equals subrange(v, v).
C11_SameInterval ==
    (outcome.op = "new" /\ outcome.name = "subrange") =>
        \A lo, hi \in Ints :
            (lo <= hi /\ outcome.args \in FormsOf(lo, hi))
            => /\ self # NoObj
               /\ MinOf(self) = lo /\ MaxOf(self) = hi
               /\ subrange_eq(self, Canonical(lo, hi))
               /\ subrange_eq(Canonical(lo, hi), self)
               /\ subrange_hash(self) = subrange_hash(Canonical(lo, hi))
               /\ self = Canonical(lo, hi)

\* a copy of a multi-element interval was built
C11_Witness ==
    /\ outcome.op = "new" /\ outcome.name = "subrange" /\ self # NoObj
    /\ Len(outcome.args) = 1 /\ IsSubrange(outcome.args[1])
    /\ MinOf(self) < MaxOf(self)
    /\ outcome.args \in FormsOf(MinOf(self), MaxOf(self))

\* the error taxonomy of construction, by exception type and message
MissingInitializer(o) == o.exc = "ValueError" /\ o.msg = "initializer omitted"

TooManyInitializers(o) == o.exc = "ValueError" /\ o.msg = "too many initializers"

WrongShapeSequence(o, seq) ==
    /\ o.exc = "TypeError"
    /\ o.msg = "initializing '" \o seq.t \o "' contains "
                   \o ToString(Len(seq.items)) \o " item(s), must be 2"

InvalidBoundType(o, lim) ==
    /\ o.exc = "TypeError"
    /\ o.msg = "invalid limits: min=" \o Repr(lim[1]) \o ", max=" \o Repr(lim[2])

ReversedBounds(o, lim) ==
    /\ o.exc = "ValueError"
    /\ o.msg = "reversed limits: min=" \o ToString(lim[1].i)
                   \o ", max=" \o ToString(lim[2].i)

\* the argument list passes the count and shape checks
Resolvable(args) ==
    \/ Len(args) = 2
    \/ /\ Len(args) = 1
       /\ \/ IsSubrange(args[1])
          \/ args[1].t = "dict" /\ {"min", "max"} \subseteq DOMAIN args[1].d
          \/ args[1].t \in {"tuple", "list"} /\ Len(args[1].items) = 2
          \/ ~IsSubrange(args[1]) /\ args[1].t \notin {"dict", "tuple", "list"}

\* the bounds a resolvable argument list states
Resolved(args) ==
    IF Len(args) = 2 THEN <<args[1], args[2]>>
    ELSE IF IsSubrange(args[1]) THEN <<args[1].dict["min"], args[1].dict["max"]>>
    ELSE IF args[1].t = "dict" THEN <<args[1].d["min"], args[1].d["max"]>>
    ELSE IF args[1].t \in {"tuple", "list"} THEN <<args[1].items[1], args[1].items[2]>>
    ELSE <<args[1], args[1]>>

\* C12: the checks of construction come in a fixed order and the first failing
\* one decides: no argument is Missing-initializer and three or more are
\* Too-many-initializers whatever the values; one tuple or list whose length is
\* not two is Wrong-shape-sequence-initializer; a resolved bound that is not
\* exactly an int is Invalid-bound-type, also when the bounds would be reversed;
\* only two ints with min > max are Reversed-bounds; a failure leaves no
\* instance.
C12_CheckOrder ==
    outcome.op = "new" =>
        LET args == outcome.args IN
        /\ Raised(outcome) => self = NoObj
        /\ Len(args) = 0 => MissingInitializer(outcome)
        /\ Len(args) >= 3 => TooManyInitializers(outcome)
        /\ (Len(args) = 1 /\ args[1].t \in {"tuple", "list"} /\ Len(args[1].items) # 2)
               => WrongShapeSequence(outcome, args[1])
        /\ Resolvable(args) =>
               LET lim == Resolved(args) IN
               IF lim[1].t # "int" \/ lim[2].t # "int"
               THEN InvalidBoundType(outcome, lim)
               ELSE IF lim[1].i > lim[2].i THEN ReversedBounds(outcome, lim)
               ELSE outcome.name = "subrange" => ~Raised(outcome)
        /\ (outcome.exc = "ValueError" /\ Len(args) \in {1, 2})
               => /\ Resolvable(args)
                  /\ Resolved(args)[1].t = "int" /\ Resolved(args)[2].t = "int"
                  /\ Resolved(args)[1].i > Resolved(args)[2].i

\* a float above an int lower than it was rejected for its type, not for the
\* order of the bounds
C12_Witness ==
    /\ outcome.op = "new" /\ self = NoObj /\ Len(outcome.args) = 2
    /\ outcome.args[1].t = "float" /\ outcome.args[2].t = "int"
    /\ outcome.args[1].h > 2 * outcome.args[2].i
    /\ InvalidBoundType(outcome, outcome.args)

\* the missing keys named in sorted order
SortedAbsent(absent) ==
    IF absent = {"min", "max"} THEN "'max', 'min'"
    ELSE IF absent = {"min"} THEN "'min'" ELSE "'max'"

\* C13: a single dictionary argument that lacks min or max or both fails with
\* the incomplete-mapping TypeError whose message names every missing key in
\* sorted order ('max' then 'min' when both are missing), whatever the
\* iteration order of the set of missing keys; a dictionary that has both keys,
\* with or without extra keys, does not raise this error.
C13_SortedMissingKeys ==
    (/\ outcome.op = "new" /\ Len(outcome.args) = 1 /\ outcome.args[1].t = "dict")
    => LET absent == {"min", "max"} \ DOMAIN outcome.args[1].d
           text == "initializing dictionary does not define " IN
       IF absent # {}
       THEN /\ self = NoObj /\ outcome.exc = "TypeError"
            /\ outcome.msg = text \o SortedAbsent(absent)
       ELSE Raised(outcome) =>
                \A a \in SUBSET {"min", "max"} \ {{}} :
                    \A order \in SetOrders : outcome.msg # text \o JoinAbsent(order, a)

----------------------------------------------------------------------------
(* Properties of the conversions *)

\* C14: int(r) succeeds iff r.min = r.max and then returns r.min; otherwise it
\* fails with a TypeError.
C14_IntConversion ==
    outcome.op = "int" =>
        IF Lo = Hi
        THEN ~Raised(outcome) /\ outcome.val = PyInt(Lo)
        ELSE outcome.exc = "TypeError"

\* int() of a multi-element instance was refused
C14_Witness ==
    /\ outcome.op = "int" /\ Lo < Hi /\ outcome.exc = "TypeError"
    /\ self.t = "subrange"

\* C15: bool(r) is false iff r.min = r.max = 0 and true otherwise, so true for
\* every multi-element instance, also one that starts at or contains zero.
C15_Truth ==
    outcome.op = "nonzero" =>
        /\ ~Raised(outcome)
        /\ outcome.val = PyBool(~(Lo = 0 /\ Hi = 0))
        /\ Lo < Hi => outcome.val = PyBool(TRUE)

\* a multi-element instance with zero inside it was found true
C15_Witness ==
    /\ outcome.op = "nonzero" /\ Lo < 0 /\ 0 < Hi
    /\ outcome.val = PyBool(TRUE)

----------------------------------------------------------------------------
(* Properties of containment *)

\* what a traversal with generator g collects until it is exhausted
RECURSIVE Drain(_, _)
Drain(g, obj) == IF g.pc = "finished" THEN g.got ELSE Drain(GeneratorNext(g, obj), obj)

\* the elements that iterating self yields
Elements == LET got == Drain(subrange_iter(self), self) IN {got[i] : i \in DOMAIN got}

\* the results of the valid indexes of self
Indexed == {subrange_getitem(self, PyInt(k)).val :
                k \in {j \in OpInts : ~Raised(subrange_getitem(self, PyInt(j)))}}

\* C16: x in r is true iff r.min <= x <= r.max by the ordinary comparison, so
\* numbers that are no integers are accepted as probes; for an integer x this
\* is the same as x being one of the elements that iterating r yields, and the
\* same as x being the result of some valid index of r.
C16_Containment ==
    outcome.op = "contains" =>
        /\ ~Raised(outcome)
        /\ IsNumber(other) =>
               outcome.val = PyBool(2 * Lo <= Twice(other) /\ Twice(other) <= 2 * Hi)
        /\ other.t = "int" =>
               /\ outcome.val = PyBool(other.i \in Elements)
               /\ outcome.val = PyBool(other \in Indexed)
        /\ IsSubrange(other) =>
               outcome.val =
                   PyBool(/\ \/ MinOf(other) > Lo
                             \/ MinOf(other) = MaxOf(other) /\ MinOf(other) = Lo
                          /\ \/ MaxOf(other) < Hi
                             \/ MinOf(other) = MaxOf(other) /\ MaxOf(other) = Hi)
        /\ (~IsNumber(other) /\ ~IsSubrange(other)) =>
               outcome.val = PyBool(PyLe(self.dict["min"], other)
                                        /\ PyLe(other, self.dict["max"]))

\* a float strictly between two neighbouring elements was found inside
C16_Witness ==
    /\ outcome.op = "contains" /\ other.t = "float" /\ other.h % 2 = 1
    /\ 2 * Lo < other.h /\ other.h < 2 * Hi
    /\ outcome.val = PyBool(TRUE)

----------------------------------------------------------------------------
(* Properties of rendering *)

\* the plain instance with the bounds of self
Plain == Canonical(Lo, Hi)

\* str(self) or format(self, "") was applied
DefaultRendered == outcome.op = "str" \/ (outcome.op = "format" /\ outcome.spec = EmptySpec)

\* format(self, spec) with a non-empty spec was applied
SpecRendered == outcome.op = "format" /\ outcome.spec # EmptySpec

\* C17: for a subrangef, format() with a non-empty specification returns what
\* a plain subrange with the same bounds returns for it, whatever the template
\* and the annotations; format() with the empty specification and str() return
\* the rendering cached at construction, which is the template evaluated
\* against min, max, value and the annotations, and is the default form of the
\* plain subrange when no template was given.
C17_AnnotatedRendering ==
    self.t = "subrangef" =>
        /\ SpecRendered => outcome.val = subrange_format(Plain, outcome.spec)
        /\ DefaultRendered =>
               /\ outcome.val = self.dict["_subrangef__str"]
               /\ Return(outcome.val)
                      = RenderTemplate(StrSpecOf(self.dict).segs, self.dict)
               /\ "str_spec" \notin DOMAIN self.dict => outcome.val = subrange_str(Plain)
               /\ ("str_spec" \in DOMAIN self.dict
                       /\ self.dict["str_spec"].segs[1] = Field("min", "", EmptySpec))
                      => outcome.val = PyStr(ToString(Lo) \o "-" \o ToString(Hi))
               /\ ("str_spec" \in DOMAIN self.dict /\ self.dict["str_spec"].segs[1] = Lit("0x"))
                      => outcome.val =
                             PyStr("0x" \o subrange_format(Plain, FmtSpec("X", 2)).s
                                       \o " " \o Repr(self.dict["id"]))

\* an instance with a template was formatted with "02X" and the result is not
\* its cached rendering
C17_Witness ==
    /\ self.t = "subrangef" /\ "str_spec" \in DOMAIN self.dict /\ Lo < Hi
    /\ outcome.op = "format" /\ outcome.spec = FmtSpec("X", 2)
    /\ outcome.val # self.dict["_subrangef__str"]
    /\ outcome.val = PyStr(FormatInt(Lo, outcome.spec) \o ".." \o FormatInt(Hi, outcome.spec))

\* lo alone for a single element, otherwise lo..hi, each bound as text gives it
Shape(text(_)) == IF Lo = Hi THEN text(Lo) ELSE text(Lo) \o ".." \o text(Hi)

----------------------------------------------------------------------------
(* Properties of the annotated instance *)

\* C19: in every subrangef that construction returns, min and max are the
\* bounds resolved from the positional arguments, never the value of an
\* annotation, and value is a plain subrange, another instance than the
\* subrangef itself, with value.min = min and value.max = max.
C19_AnnotatedFields ==
    /\ (self # NoObj /\ self.t = "subrangef") =>
           LET value == self.dict["value"] IN
           /\ value.t = "subrange" /\ value # self
           /\ DOMAIN value.dict
                  = {"min", "max", "_subrange__hash", "_subrange__repr", "_subrange__str"}
           /\ value.dict["min"] = self.dict["min"]
           /\ value.dict["max"] = self.dict["max"]
    /\ (outcome.op = "new" /\ outcome.name = "subrangef" /\ self # NoObj) =>
           /\ Resolvable(outcome.args)
           /\ self.dict["min"] = Resolved(outcome.args)[1]
           /\ self.dict["max"] = Resolved(outcome.args)[2]

\* an instance built with an annotation named max keeps the positional bound
C19_Witness ==
    /\ outcome.op = "new" /\ outcome.name = "subrangef" /\ self # NoObj
    /\ "max" \in DOMAIN outcome.kwargs
    /\ self.dict["max"] # outcome.kwargs["max"]
    /\ self.dict["value"].dict["max"] = self.dict["max"]
    /\ self.dict["min"].i < self.dict["max"].i

----------------------------------------------------------------------------
(* Properties of the strict order among intervals *)

\* the third intervals of transitivity
Thirds == Instances \cup Shifted

\* how many of the given truth values hold
HowMany(bs) == Cardinality({i \in DOMAIN bs : bs[i]})

\* C20: among intervals < is a strict partial order that is not total: no
\* interval is below itself; a < b and b < c give a < c; a < b excludes b < a;
\* a < b iff b > a; at most one of a < b, a == b, a > b holds, and none of them
\* holds exactly when a and b overlap and are unequal.
C20_StrictPartialOrder ==
    (outcome.op \in {"lt", "gt"} /\ IsSubrange(other)) =>
        LET lt == IF outcome.op = "lt" THEN outcome.val = PyBool(TRUE)
                  ELSE subrange_lt(self, other)
            gt == IF outcome.op = "gt" THEN outcome.val = PyBool(TRUE)
                  ELSE subrange_gt(self, other)
            eq == subrange_eq(self, other)
        IN  /\ (Lo = MinOf(other) /\ Hi = MaxOf(other)) => ~lt /\ ~gt
            /\ ~subrange_lt(self, self) /\ ~subrange_gt(self, self)
            /\ lt => ~subrange_lt(other, self)
            /\ gt => ~subrange_gt(other, self)
            /\ lt <=> subrange_gt(other, self)
            /\ gt <=> subrange_lt(other, self)
            /\ \A c \in Thirds :
                   /\ (lt /\ subrange_lt(other, c)) => subrange_lt(self, c)
                   /\ (gt /\ subrange_gt(other, c)) => subrange_gt(self, c)
            /\ HowMany(<<lt, eq, gt>>) <= 1
            /\ HowMany(<<lt, eq, gt>>) = 0 <=> OverlapUnequal

\* two intervals that overlap and are unequal were compared: neither is below
\* the other and they are not equal
C20_Witness ==
    /\ outcome.op = "lt" /\ outcome.val = PyBool(FALSE) /\ OverlapUnequal
    /\ ~subrange_lt(other, self) /\ ~subrange_eq(self, other)
    /\ \E c \in Thirds : subrange_lt(self, c) /\ subrange_lt(other, c)

====
